---- MODULE Spec2Model ----
(***************************************************************************)
(* cp2totoro: interactive selection of local media files, copy to a remote *)
(* media server over scp, remote verification.  The model follows          *)
(* src/utils/menu.py (Item Lister, Selector, Origin and Destination        *)
(* Resolver), src/utils/misc.py (confirmation and conversion flows),       *)
(* src/utils/ssh_operations.py and src/utils/scp_connect.py (Transfer      *)
(* Orchestrator) and src/utils/output.py (bye).                            *)
(*                                                                         *)
(* Paths are sequences of names below the filesystem root <<>>; a string   *)
(* f"{folder}/{item}" is the sequence folder \o <<item>>.  Texts typed at  *)
(* a prompt are sequences of one-character strings, so that str.lower() is *)
(* a real conversion.                                                      *)
(***************************************************************************)
EXTENDS Integers, Sequences, FiniteSets, TLC

\* ------------------------------------------------------------------ bounds
\* Number of menus one select_origin traversal may show (recursion depth).
MaxDepth == 3

\* ------------------------------------------------------ configuration
\* utils/config.py: SERVER_ORIGIN_FOLDER, the canonical path of the origin root.
origin_folder == <<"o">>
\* utils/config.py: LOCAL_BASE_FOLDER, where the media share is mounted.
base_folder == <<"m">>
\* utils/config.py: SERVER_SERIES_FOLDER, the locally mounted series folder.
series_folder == <<"m", "series">>
\* utils/config.py: SERVER_DESTINATION_BASE_FOLDER, as a sequence of tokens.
destination_base_folder == <<"base">>

\* ------------------------------------------------------ filesystem
\* Python compares str by code point; Rank is that order on the names used.
Rank ==
  [n \in {"DONE", "S01", "S1", "S2", "Show", "a.mkv", "a_H265.mp4", "b.mkv",
          "b_H265.mp4", "ep1.mkv", "ep1_H265.mp4", "m", "movies", "o",
          "series"} |->
     CASE n = "DONE" -> 0
       [] n = "S01" -> 1
       [] n = "S1" -> 2
       [] n = "S2" -> 3
       [] n = "Show" -> 4
       [] n = "a.mkv" -> 5
       [] n = "a_H265.mp4" -> 6
       [] n = "b.mkv" -> 7
       [] n = "b_H265.mp4" -> 8
       [] n = "ep1.mkv" -> 9
       [] n = "ep1_H265.mp4" -> 10
       [] n = "m" -> 11
       [] n = "movies" -> 12
       [] n = "o" -> 13
       [] n = "series" -> 14]

\* The part of the filesystem shared by every run: the mounted media share
\* with the series tree, and one file next to the origin root.
CommonDirs ==
  {<<>>, <<"o">>, <<"m">>, <<"m", "series">>, <<"m", "series", "Show">>,
   <<"m", "series", "Show", "S01">>}
CommonFiles == {<<"a.mkv">>}

\* Origin trees a run may start from.
FsFlat ==
  [dirs |-> CommonDirs,
   files |-> CommonFiles \cup {<<"o", "a.mkv">>, <<"o", "b.mkv">>}]
FsOneSeason ==
  [dirs |-> CommonDirs \cup {<<"o", "S1">>},
   files |-> CommonFiles \cup {<<"o", "S1", "ep1.mkv">>}]
FsMixed ==
  [dirs |-> CommonDirs \cup {<<"o", "S1">>},
   files |-> CommonFiles \cup {<<"o", "a.mkv">>, <<"o", "S1", "ep1.mkv">>}]
Filesystems == {FsFlat, FsOneSeason, FsMixed}

\* ------------------------------------------------------ sequences
Last(s) == s[Len(s)]
Front(s) == SubSeq(s, 1, Len(s) - 1)
Range(s) == {s[i] : i \in 1..Len(s)}

RECURSIVE SortedSeq(_)
\* sorted(names): ascending by code point.
SortedSeq(S) ==
  IF S = {} THEN <<>>
  ELSE LET m == CHOOSE x \in S : \A y \in S : Rank[x] <= Rank[y]
       IN <<m>> \o SortedSeq(S \ {m})

RECURSIVE PickAt(_, _, _)
\* The entries of labels at the indices in I, in menu order, from index i on.
PickAt(labels, I, i) ==
  IF i > Len(labels) THEN <<>>
  ELSE (IF i \in I THEN <<labels[i]>> ELSE <<>>) \o PickAt(labels, I, i + 1)

\* ------------------------------------------------------ pathlib
RECURSIVE Resolve(_)
\* Path(p).resolve(): ".." removes the segment before it; the parent of the
\* filesystem root is the root.
Resolve(p) ==
  IF p = <<>> THEN <<>>
  ELSE LET r == Resolve(Front(p))
       IN IF Last(p) = ".."
          THEN (IF r = <<>> THEN <<>> ELSE Front(r))
          ELSE r \o <<Last(p)>>

\* Path(p).is_dir()
is_dir(f, p) == Resolve(p) \in f.dirs

\* p is q or an ancestor of q.
IsPrefix(p, q) == Len(p) <= Len(q) /\ SubSeq(q, 1, Len(p)) = p

\* The part of filesystem f that lies on the media share: everything below
\* the mount point.
OnShare(f) ==
  [dirs |-> {d \in f.dirs : IsPrefix(base_folder, d) /\ d # base_folder},
   files |-> {q \in f.files : IsPrefix(base_folder, q)}]

\* What the local system sees of f: without the share mounted the mount point
\* is a directory with nothing below it.
View(f, mnt) ==
  IF mnt THEN f
  ELSE [dirs |-> f.dirs \ OnShare(f).dirs, files |-> f.files \ OnShare(f).files]

\* path.iterdir() raises FileNotFoundError unless the path exists.
path_exists(f, p) == Resolve(p) \in f.dirs \cup f.files

\* The names of the entries of directory d: path.iterdir().
SubdirNames(f, d) == {Last(p) : p \in {q \in f.dirs : q # <<>> /\ Front(q) = d}}
FileNames(f, d) == {Last(p) : p \in {q \in f.files : Front(q) = d}}

\* A listing that puts the files before the directories.
get_list_of_items_files_first(f, folder_path) ==
  SortedSeq(FileNames(f, Resolve(folder_path)))
    \o SortedSeq(SubdirNames(f, Resolve(folder_path)))

\* get_list_of_items(folder_path) for an existing folder.
get_list_of_items(f, folder_path) ==
  SortedSeq(SubdirNames(f, Resolve(folder_path)))
    \o SortedSeq(FileNames(f, Resolve(folder_path)))

\* ------------------------------------------------------ menu
\* The labels menu() hands to TerminalMenu.
menu_entries(selectable_items, add_done_option) ==
  selectable_items \o <<"..">> \o (IF add_done_option THEN <<"DONE">> ELSE <<>>)

\* What menu() can return: list(terminal_menu.chosen_menu_entries), the
\* chosen labels in menu order, for any set of chosen indices.
menu_results(labels) == {PickAt(labels, I, 1) : I \in SUBSET (1..Len(labels))}

\* ------------------------------------------------------ typed text
\* The texts a user types at a [y/N] prompt, as sequences of characters.
ConfirmTexts == {<<"Y">>, <<"y", "E", "s">>, <<"N", "o">>, <<>>, <<"y", "e">>}

\* str.lower() on one character.
LowerChar(c) ==
  CASE c = "Y" -> "y"
    [] c = "E" -> "e"
    [] c = "S" -> "s"
    [] c = "N" -> "n"
    [] c = "O" -> "o"
    [] OTHER -> c

\* A comparison of the text as typed, without lower().
lower_missing(text) == text

\* str.lower()
lower(text) == [i \in 1..Len(text) |-> LowerChar(text[i])]

\* text.lower() in ["y", "yes"]
is_yes(text) == lower(text) \in {<<"y">>, <<"y", "e", "s">>}

\* The value of a confirmation text before its prompt was answered.
Unasked == <<"unasked">>

\* ------------------------------------------------------ state
VARIABLES
  fs,                  \* every directory and file, the media share included
  mounted,             \* whether the media share is mounted at base_folder
  mount_answer,        \* the last text typed at "Do you want to mount ...?"
  media_type,          \* select_destination: the chosen category
  serie,               \* select_destination: the chosen series folder
  season,              \* select_destination: the chosen season folder
  pc,                  \* position of the program
  current_folder,      \* select_origin: the resolved folder of the next menu
  pre_selected_items,  \* select_origin: the accumulator (the default list)
  depth,               \* select_origin: menus shown so far in this traversal
  shown,               \* the labels of the last menu shown by select_origin
  visits,              \* select_origin: <<folder, selection>> per menu shown
  origin_files,        \* the Selection Set select_origin returned
  returned_by,         \* the branch select_origin returned from
  destination_folder,  \* the Destination Path select_destination returned
  files_to_copy,       \* scp: origin_files as conversion_flow returned it
  copy_confirmation,   \* the text typed at "Confirm to copy [y/N]"
  remote,              \* the remote operations issued, in order
  scp_result,          \* what scp returned
  item_paths,          \* remove_local_files: the paths it resolved, in order
  remove_confirmation, \* the text typed at "Do you want to remove the local files?"
  removed,             \* remove_local_files: the paths it deleted, in order
  notifier_ran,        \* whether the notifier was started
  raised,              \* the exception that ended the run
  exit_status,         \* the status the process exited with, -1 while running
  size_bytes,          \* format_size: its argument, as base-1024 digits
  formatted,           \* format_size: what it returned, <<hundredths, unit>>
  rename_destination,  \* rename_files: destination_folder, as characters
  season_files,        \* the file names in the season folder of the server
  rename_answers,      \* rename_files: the texts typed at its prompts
  rename_log,          \* rename_files: the remote commands it ran, in order
  listed,              \* rename_files: files, the lines of the listing
  renamed_files,       \* rename_files: the <<old, new>> pairs of the dry run
  rename_warned,       \* rename_files: whether it warned and skipped
  earlier_call         \* the choices and the result of an earlier top-level
                       \* select_origin call of this process, if any

vars == <<fs, pc, current_folder, pre_selected_items, depth, shown, visits,
          origin_files, returned_by, destination_folder, files_to_copy,
          copy_confirmation, remote, scp_result, item_paths,
          remove_confirmation, removed, notifier_ran, raised, exit_status,
          mounted, mount_answer, media_type, serie, season, size_bytes,
          formatted, rename_destination, season_files, rename_answers,
          rename_log, listed, renamed_files, rename_warned, earlier_call>>

\* The filesystem as the local system sees it.
Local == View(fs, mounted)

\* The variables of the helper functions that are checked on their own.
formatVars == <<size_bytes, formatted>>
renameVars == <<rename_destination, season_files, rename_answers, rename_log,
                listed, renamed_files, rename_warned>>
auxVars == <<formatVars, renameVars, earlier_call>>
mountVars == <<mounted, mount_answer>>
choiceVars == <<media_type, serie, season>>
cleanupVars == <<item_paths, remove_confirmation, removed, notifier_ran>>
originVars == <<current_folder, pre_selected_items, depth, shown, visits,
                origin_files, returned_by>>
scpVars == <<files_to_copy, copy_confirmation, remote, scp_result>>

Entry(folder, files) == [folder |-> folder, files |-> files]

RECURSIVE WrapEach(_, _)
\* The loop of the DONE branch: one {current_folder: [label]} per chosen label.
WrapEach(folder, labels) ==
  IF labels = <<>> THEN <<>>
  ELSE <<Entry(folder, <<labels[1]>>)>>
         \o WrapEach(folder, SubSeq(labels, 2, Len(labels)))

\* A select_origin that offers DONE in every menu.
add_done_option_everywhere(folder) == TRUE

\* select_origin: DONE is offered when the resolved folder is the origin root.
add_done_option(folder) == folder = origin_folder

\* The state of a process before its first call, whatever it goes on to run.
Constructed ==
  /\ mount_answer = Unasked
  /\ media_type = ""
  /\ serie = ""
  /\ season = ""
  /\ current_folder = origin_folder
  /\ pre_selected_items = <<>>
  /\ depth = 0
  /\ shown = <<>>
  /\ visits = <<>>
  /\ origin_files = <<>>
  /\ returned_by = "none"
  /\ destination_folder = <<>>
  /\ files_to_copy = <<>>
  /\ copy_confirmation = Unasked
  /\ remote = <<>>
  /\ scp_result = "none"
  /\ item_paths = <<>>
  /\ remove_confirmation = Unasked
  /\ removed = <<>>
  /\ notifier_ran = FALSE
  /\ raised = "none"
  /\ exit_status = -1

\* format_size is not running.
FormatIdle ==
  /\ size_bytes = <<>>
  /\ formatted = <<>>

\* rename_files is not running.
RenameIdle ==
  /\ rename_destination = <<>>
  /\ season_files = {}
  /\ rename_answers = <<>>
  /\ rename_log = <<>>
  /\ listed = <<>>
  /\ renamed_files = <<>>
  /\ rename_warned = FALSE

\* select_origin has not been called before.
FirstCall == earlier_call = <<>>

\* No helper function has been called on its own.
AuxIdle == FormatIdle /\ RenameIdle /\ FirstCall

Init ==
  /\ fs \in Filesystems
  /\ mounted \in BOOLEAN
  /\ pc = "select_origin"
  /\ Constructed
  /\ AuxIdle

\* A bye that exits the way mount_ask's trailing sys.exit() would: status 0.
bye_exit_zero ==
  /\ pc' = "exited"
  /\ raised' = "SystemExit"
  /\ exit_status' = 0

\* bye(): print the farewell and sys.exit(1).
bye ==
  /\ pc' = "exited"
  /\ raised' = "SystemExit"
  /\ exit_status' = 1

\* An exception that leaves the running function reaches the entry point,
\* which reports it and exits with status 1.
Raise(exception) ==
  /\ pc' = "exited"
  /\ raised' = exception
  /\ exit_status' = 1

\* The folder select_destination hands to get_list_of_items for the menu it
\* is about to show.
listed_folder ==
  IF pc = "select_serie" THEN series_folder ELSE series_folder \o <<serie>>

\* A menu without its except clause: the TypeError of list(None) escapes.
menu_lets_type_error_out == "TypeError"

\* menu(): except TypeError: raise (KeyboardInterrupt)
menu_cancel_signal == "KeyboardInterrupt"

\* menu(): TerminalMenu yields no entries (chosen_menu_entries is None), list()
\* raises TypeError and menu raises KeyboardInterrupt.
menu_cancelled ==
  /\ UNCHANGED auxVars
  /\ pc \in {"select_origin", "select_destination", "select_serie",
            "select_season"}
  /\ pc \in {"select_serie", "select_season"} => is_dir(Local, listed_folder)
  /\ UNCHANGED <<cleanupVars, mountVars, choiceVars>>
  /\ pc = "select_origin" => depth < MaxDepth
  /\ Raise(menu_cancel_signal)
  /\ UNCHANGED <<fs, originVars, destination_folder, scpVars>>

\* select_origin, DONE branch: every chosen label but DONE is wrapped in an
\* entry of its own and appended to the accumulator, which is returned.
done_branch(pre, folder, selected_items) ==
  pre \o WrapEach(folder, Front(selected_items))

\* A directory branch that forgets to drop the folder it enters.
descend_push_all(pre, folder, selected_items) ==
  Append(pre, Entry(folder, selected_items))

\* select_origin, directory branch: the entry pushed before descending.
descend_push(pre, folder, selected_items) ==
  Append(pre, Entry(folder, Front(selected_items)))

\* A fallback that appends the file to the accumulator instead of dropping it.
fallback_keeps_accumulator(pre, folder, item) ==
  Append(pre, Entry(folder, <<item>>))

\* select_origin, last statement: "the one file", the accumulator is dropped.
single_file_fallback(pre, folder, item) == <<Entry(folder, <<item>>)>>

\* One invocation of select_origin: one menu and the branch taken on its result.
select_origin ==
  /\ UNCHANGED auxVars
  /\ pc = "select_origin"
  /\ UNCHANGED <<cleanupVars, mountVars, choiceVars>>
  /\ depth < MaxDepth
  /\ LET labels == menu_entries(get_list_of_items(Local, current_folder),
                                add_done_option(current_folder))
     IN \E selected_items \in menu_results(labels) :
          /\ shown' = labels
          /\ depth' = depth + 1
          /\ visits' = Append(visits, <<current_folder, selected_items>>)
          /\ IF selected_items = <<>>
             THEN /\ bye
                  /\ UNCHANGED <<current_folder, pre_selected_items,
                                 origin_files, returned_by>>
             ELSE LET item == Last(selected_items)
                  IN IF item = "DONE"
                     THEN /\ pre_selected_items' =
                               done_branch(pre_selected_items, current_folder,
                                           selected_items)
                          /\ origin_files' = pre_selected_items'
                          /\ returned_by' = "DONE"
                          /\ pc' = "select_destination"
                          /\ UNCHANGED <<current_folder, raised, exit_status>>
                     ELSE IF is_dir(Local, current_folder \o <<item>>)
                     THEN /\ pre_selected_items' =
                               descend_push(pre_selected_items, current_folder,
                                            selected_items)
                          /\ current_folder' = Resolve(current_folder \o <<item>>)
                          /\ UNCHANGED <<pc, origin_files, returned_by, raised,
                                         exit_status>>
                     ELSE /\ origin_files' =
                               single_file_fallback(pre_selected_items,
                                                    current_folder, item)
                          /\ returned_by' = "fallback"
                          /\ pc' = "select_destination"
                          /\ UNCHANGED <<current_folder, pre_selected_items,
                                         raised, exit_status>>
  /\ UNCHANGED <<fs, destination_folder, scpVars>>

\* ------------------------------------------------------ select_destination
\* The categories of the first menu of select_destination.
MediaTypes == <<"movies", "series", "comedy", "documentaries">>

\* A category destination without its trailing separator.
category_destination_unterminated(chosen_type) ==
  destination_base_folder \o <<"/", chosen_type>>

\* f"{destination_base_folder}/{media_type}/"
category_destination(chosen_type) ==
  destination_base_folder \o <<"/", chosen_type, "/">>

\* f"{destination_base_folder}/series/{serie}/{season}/"
series_destination(chosen_serie, chosen_season) ==
  destination_base_folder
    \o <<"/", "series", "/", chosen_serie, "/", chosen_season, "/">>

\* select_destination, first menu: the category; [0] of an empty selection
\* raises IndexError.  The frames of select_origin are gone by now.
select_destination ==
  /\ UNCHANGED auxVars
  /\ pc = "select_destination"
  /\ \E chosen \in menu_results(menu_entries(MediaTypes, FALSE)) :
       IF chosen = <<>>
       THEN /\ Raise("IndexError")
            /\ UNCHANGED <<destination_folder, media_type>>
       ELSE /\ media_type' = chosen[1]
            /\ UNCHANGED <<raised, exit_status>>
            /\ IF chosen[1] # "series"
               THEN /\ destination_folder' = category_destination(chosen[1])
                    /\ pc' = "conversion_flow"
               ELSE /\ pc' = "select_serie"
                    /\ UNCHANGED destination_folder
  /\ current_folder' = origin_folder
  /\ depth' = 0
  /\ shown' = <<>>
  /\ visits' = <<>>
  /\ UNCHANGED <<fs, pre_selected_items, origin_files, returned_by, scpVars,
                 cleanupVars, mountVars, serie, season>>

\* select_destination, second menu: menu(get_list_of_items(series_folder))[0]
\* once the folder can be listed.
select_serie ==
  /\ UNCHANGED auxVars
  /\ pc = "select_serie"
  /\ is_dir(Local, listed_folder)
  /\ \E chosen \in menu_results(
                     menu_entries(get_list_of_items(Local, listed_folder), FALSE)) :
       IF chosen = <<>>
       THEN /\ Raise("IndexError")
            /\ UNCHANGED serie
       ELSE /\ serie' = chosen[1]
            /\ pc' = "select_season"
            /\ UNCHANGED <<raised, exit_status>>
  /\ UNCHANGED <<fs, originVars, destination_folder, scpVars, cleanupVars,
                 mountVars, media_type, season>>

\* select_destination, third menu:
\* menu(get_list_of_items(f"{series_folder}/{serie}"))[0] once the folder can
\* be listed; iterdir on a file raises NotADirectoryError.
select_season ==
  /\ UNCHANGED auxVars
  /\ pc = "select_season"
  /\ path_exists(Local, listed_folder)
  /\ IF ~is_dir(Local, listed_folder)
     THEN /\ Raise("NotADirectoryError")
          /\ UNCHANGED <<season, destination_folder>>
     ELSE \E chosen \in menu_results(
                 menu_entries(get_list_of_items(Local, listed_folder), FALSE)) :
            IF chosen = <<>>
            THEN /\ Raise("IndexError")
                 /\ UNCHANGED <<season, destination_folder>>
            ELSE /\ season' = chosen[1]
                 /\ destination_folder' = series_destination(serie, chosen[1])
                 /\ pc' = "conversion_flow"
                 /\ UNCHANGED <<raised, exit_status>>
  /\ UNCHANGED <<fs, originVars, scpVars, cleanupVars, mountVars, media_type,
                 serie>>

\* What mounting the share can come to: os.system does not report whether
\* sudo mount succeeded.
MountOutcomes == BOOLEAN

\* The texts a user types at the [y/n] prompt of mount_ask.
MountTexts == {<<>>, <<"Y">>, <<"n">>, <<"y", "e">>}

\* A prompt that mounts on an explicit y or yes only.
mount_wanted_explicitly(text) == lower(text) \in {<<"y">>, <<"y", "e", "s">>}

\* mount.lower() in ["", "y", "yes"]
mount_wanted(text) == lower(text) \in {<<>>, <<"y">>, <<"y", "e", "s">>}

\* get_list_of_items, except FileNotFoundError: mount_ask(), then the folder
\* is listed again.  mount_ask mounts the share on "", y or yes and calls
\* bye() on any other answer.
mount_ask ==
  /\ UNCHANGED auxVars
  /\ pc \in {"select_serie", "select_season"}
  /\ ~path_exists(Local, listed_folder)
  /\ \E text \in MountTexts :
       /\ mount_answer' = text
       /\ IF mount_wanted(text)
          THEN /\ \E ok \in MountOutcomes : mounted' = (mounted \/ ok)
               /\ UNCHANGED <<pc, raised, exit_status>>
          ELSE /\ bye
               /\ UNCHANGED mounted
  /\ UNCHANGED <<fs, originVars, destination_folder, scpVars, cleanupVars,
                 choiceVars>>

\* ------------------------------------------------------ collect_file_names
\* Pairs whose source path is the bare file name, without its folder.
source_pairs_without_folder(entry) ==
  [i \in 1..Len(entry.files) |-> <<<<entry.files[i]>>, entry.files[i]>>]

\* (f"{folder}/{file}", file) for every file of one entry
source_pairs(entry) ==
  [i \in 1..Len(entry.files) |->
     <<entry.folder \o <<entry.files[i]>>, entry.files[i]>>]

RECURSIVE collect_file_names(_)
\* [(f"{folder}/{file}", file) for entry in origin_files for file in entry]
collect_file_names(files) ==
  IF files = <<>> THEN <<>>
  ELSE source_pairs(files[1])
         \o collect_file_names(SubSeq(files, 2, Len(files)))

\* ------------------------------------------------------ conversion_flow
\* The files whose video stream is already hevc: convert_to_H265_codec
\* returns them unchanged.
HevcNames == {"b.mkv"}

\* get_new_file_name: the stem of the file name followed by "_H265.mp4".
get_new_file_name(name) ==
  CASE name = "a.mkv" -> "a_H265.mp4"
    [] name = "b.mkv" -> "b_H265.mp4"
    [] name = "ep1.mkv" -> "ep1_H265.mp4"
    [] OTHER -> name

\* The name convert_to_H265_codec returns for a regular file.
converted_name(name) ==
  IF name \in HevcNames THEN name ELSE get_new_file_name(name)

RECURSIVE converted_entries(_)
\* conversion_flow: entries with no file names are dropped, the others list
\* the names of the converted files.
converted_entries(files) ==
  IF files = <<>> THEN <<>>
  ELSE (IF files[1].files = <<>> THEN <<>>
        ELSE <<Entry(files[1].folder,
                     [i \in 1..Len(files[1].files) |->
                        converted_name(files[1].files[i])])>>)
         \o converted_entries(SubSeq(files, 2, Len(files)))

\* The files ffmpeg wrote after the first k items of the flattened list.
written(flat, k) ==
  {Front(flat[i][1]) \o <<converted_name(flat[i][2])>> : i \in 1..k}

\* conversion_flow: on y/yes every listed item is converted in order; an item
\* that is no regular file makes ffmpeg.probe raise, as may a file it cannot
\* read; a failing ffmpeg run exits with status 1.
conversion_flow ==
  /\ UNCHANGED auxVars
  /\ pc = "conversion_flow"
  /\ UNCHANGED <<cleanupVars, mountVars, choiceVars>>
  /\ \E convert_confirmation \in ConfirmTexts :
       IF ~is_yes(convert_confirmation)
       THEN /\ files_to_copy' = origin_files
            /\ pc' = "confirmation_flow"
            /\ UNCHANGED <<fs, raised, exit_status>>
       ELSE LET flat == collect_file_names(origin_files)
                regular(i) == Resolve(flat[i][1]) \in Local.files
            IN \E stop \in 0..Len(flat) :
                 /\ \A i \in 1..stop : regular(i)
                 /\ fs' = [fs EXCEPT !.files = @ \cup written(flat, stop)]
                 /\ IF stop = Len(flat)
                    THEN /\ files_to_copy' = converted_entries(origin_files)
                         /\ pc' = "confirmation_flow"
                         /\ UNCHANGED <<raised, exit_status>>
                    ELSE /\ IF regular(stop + 1)
                            THEN \/ /\ flat[stop + 1][2] \notin HevcNames
                                    /\ Raise("SystemExit")
                                 \/ Raise("ffmpeg.Error")
                            ELSE Raise("ffmpeg.Error")
                         /\ UNCHANGED files_to_copy
  /\ UNCHANGED <<originVars, destination_folder, copy_confirmation, remote,
                 scp_result>>

\* scp returning True whether or not the copy was confirmed.
scp_returns_true_anyway == "True"

\* What scp returns when the copy was not confirmed: it falls off its end.
scp_declined_result == "None"

\* ------------------------------------------------------ scp
\* confirmation_flow: True on y/yes in any letter case, None otherwise; scp
\* then returns None without doing anything.
confirmation_flow ==
  /\ UNCHANGED auxVars
  /\ pc = "confirmation_flow"
  /\ UNCHANGED <<cleanupVars, mountVars, choiceVars>>
  /\ \E text \in ConfirmTexts :
       /\ copy_confirmation' = text
       /\ IF is_yes(text)
          THEN /\ pc' = "establish_ssh_and_scp"
               /\ UNCHANGED scp_result
          ELSE /\ pc' = "scp_returned"
               /\ scp_result' = scp_declined_result
  /\ UNCHANGED <<fs, originVars, destination_folder, files_to_copy, remote,
                 raised, exit_status>>

\* One remote operation: the session, a transmitted file or a remote command.
RemoteOp(op, src, dst, ok) == [op |-> op, src |-> src, dst |-> dst, ok |-> ok]

\* The listings issued before the permissions are set.
scp_next_lists_first(step) ==
  CASE step = "establish_ssh_and_scp" -> "check_files"
    [] step = "check_files" -> "set_permissions"
    [] step = "set_permissions" -> "check_space"
    [] step = "check_space" -> "scp_returned"

\* scp, confirmed branch: the statement that follows each call.
scp_next(step) ==
  CASE step = "establish_ssh_and_scp" -> "set_permissions"
    [] step = "set_permissions" -> "check_files"
    [] step = "check_files" -> "check_space"
    [] step = "check_space" -> "scp_returned"

\* An except clause that reports the error and carries on.
establish_swallows(connected, failed_at, n) == FALSE

\* establish_ssh_and_scp: whether the except clause re-raises, given that the
\* session was opened and that put number failed_at of n failed (n + 1: none).
establish_raises(connected, failed_at, n) == ~connected \/ failed_at <= n

\* A transfer loop that goes on with the next file after a failed put.
puts_despite_failure(failed_at, n) == n

\* establish_ssh_and_scp: how many scp.put calls are made when put number
\* failed_at of n raises (n + 1: none does): the exception leaves the loop.
puts_attempted(failed_at, n) == IF failed_at <= n THEN failed_at ELSE n

\* establish_ssh_and_scp: one session, then scp.put for every collected file
\* in order; the first failure ends the loop.
establish_ssh_and_scp ==
  /\ UNCHANGED auxVars
  /\ pc = "establish_ssh_and_scp"
  /\ UNCHANGED <<cleanupVars, mountVars, choiceVars>>
  /\ LET source_files == collect_file_names(files_to_copy)
         n == Len(source_files)
         put(i, ok) == RemoteOp("put", source_files[i][1], destination_folder, ok)
     IN \E connected \in BOOLEAN :
        \E failed_at \in 1..(n + 1) :
          /\ ~connected => failed_at = 1
          /\ remote' =
               remote \o <<RemoteOp("connect", <<>>, <<>>, connected)>>
                 \o (IF connected
                     THEN [i \in 1..puts_attempted(failed_at, n) |->
                             put(i, i # failed_at)]
                     ELSE <<>>)
          /\ IF establish_raises(connected, failed_at, n)
             THEN Raise("Exception")
             ELSE /\ pc' = scp_next("establish_ssh_and_scp")
                  /\ UNCHANGED <<raised, exit_status>>
  /\ UNCHANGED <<fs, originVars, destination_folder, files_to_copy,
                 copy_confirmation, scp_result>>

\* set_permissions: ssh chmod -R 755 "<destination>", exit status ignored.
set_permissions ==
  /\ UNCHANGED auxVars
  /\ pc = "set_permissions"
  /\ UNCHANGED <<cleanupVars, mountVars, choiceVars>>
  /\ remote' = Append(remote, RemoteOp("chmod", <<>>, destination_folder, TRUE))
  /\ pc' = scp_next("set_permissions")
  /\ UNCHANGED <<fs, originVars, destination_folder, files_to_copy,
                 copy_confirmation, scp_result, raised, exit_status>>

\* A listing of the destination folder instead of the file in it.
listed_path_of_folder(destination, file_name) == destination

\* check_files: the operand of ls -alh, f"{destination_folder}{file_name}".
listed_path(destination, file_name) == destination \o <<file_name>>

\* check_files: ssh ls -alh "<destination><file_name>" per file name, exit
\* status ignored.
check_files ==
  /\ UNCHANGED auxVars
  /\ pc = "check_files"
  /\ UNCHANGED <<cleanupVars, mountVars, choiceVars>>
  /\ LET names == collect_file_names(files_to_copy)
     IN remote' =
          remote \o [i \in 1..Len(names) |->
                       RemoteOp("ls", <<>>,
                                listed_path(destination_folder, names[i][2]),
                                TRUE)]
  /\ pc' = scp_next("check_files")
  /\ UNCHANGED <<fs, originVars, destination_folder, files_to_copy,
                 copy_confirmation, scp_result, raised, exit_status>>

\* check_space: ssh df -h <base> through check_output, which raises when the
\* command fails; then scp returns True.
check_space ==
  /\ UNCHANGED auxVars
  /\ pc = "check_space"
  /\ UNCHANGED <<cleanupVars, mountVars, choiceVars>>
  /\ \E ok \in BOOLEAN :
       /\ remote' = Append(remote, RemoteOp("df", <<>>, destination_base_folder, ok))
       /\ IF ok
          THEN /\ scp_result' = "True"
               /\ pc' = scp_next("check_space")
               /\ UNCHANGED <<raised, exit_status>>
          ELSE /\ Raise("CalledProcessError")
               /\ UNCHANGED scp_result
  /\ UNCHANGED <<fs, originVars, destination_folder, files_to_copy,
                 copy_confirmation>>

\* ------------------------------------------------------ remove_local_files
\* One path per file name, whatever the folder of the entry.
entry_item_paths_per_file(entry) ==
  [i \in 1..Len(entry.files) |-> Resolve(entry.folder \o <<entry.files[i]>>)]

\* remove_local_files, body of the first loop: for an entry of the origin
\* root one path per file name, Path(folder, file).resolve(); for any other
\* entry the folder itself, Path(folder).resolve().
entry_item_paths(entry) ==
  IF entry.folder = origin_folder
  THEN [i \in 1..Len(entry.files) |-> Resolve(entry.folder \o <<entry.files[i]>>)]
  ELSE <<Resolve(entry.folder)>>

RECURSIVE resolve_item_paths(_)
\* remove_local_files, first loop over the entries of origin_items.
resolve_item_paths(origin_items) ==
  IF origin_items = <<>> THEN <<>>
  ELSE entry_item_paths(origin_items[1])
         \o resolve_item_paths(SubSeq(origin_items, 2, Len(origin_items)))

\* shutil.rmtree(p): the directory and everything below it.
rmtree(f, p) ==
  [dirs |-> {d \in f.dirs : ~IsPrefix(p, d) \/ d = <<>>},
   files |-> {q \in f.files : ~IsPrefix(p, q)}]

\* os.remove(p)
os_remove(f, p) == [f EXCEPT !.files = @ \ {p}]

RECURSIVE remove_each(_, _, _)
\* remove_local_files, deletion loop: rmtree for a directory, os.remove
\* otherwise; a path that is gone makes os.remove raise FileNotFoundError and
\* the filesystem root cannot be removed, either ends the loop.
remove_each(f, paths, done) ==
  IF paths = <<>> THEN [fs |-> f, removed |-> done, error |-> "none"]
  ELSE IF paths[1] \in f.dirs
  THEN (IF paths[1] = <<>>
        THEN [fs |-> rmtree(f, paths[1]), removed |-> done, error |-> "OSError"]
        ELSE remove_each(rmtree(f, paths[1]), SubSeq(paths, 2, Len(paths)),
                         Append(done, paths[1])))
  ELSE IF paths[1] \in f.files
  THEN remove_each(os_remove(f, paths[1]), SubSeq(paths, 2, Len(paths)),
                   Append(done, paths[1]))
  ELSE [fs |-> f, removed |-> done, error |-> "FileNotFoundError"]

\* The entry point goes on to cleanup and notification when scp returned a
\* truthy value.
main_proceeds(result) == result = "True"

\* A prompt whose empty answer counts as yes.
remove_confirmed_by_default(text) ==
  lower(text) \in {<<>>, <<"y">>, <<"y", "e", "s">>}

\* remove_local_files.lower() in ["y", "yes"]
remove_confirmed(text) == lower(text) \in {<<"y">>, <<"y", "e", "s">>}

\* remove_local_files(origin_files), called after a successful scp.
remove_local_files ==
  /\ UNCHANGED auxVars
  /\ pc = "scp_returned"
  /\ main_proceeds(scp_result)
  /\ item_paths' = resolve_item_paths(origin_files)
  /\ \E text \in ConfirmTexts :
       /\ remove_confirmation' = text
       /\ IF remove_confirmed(text)
          THEN LET run == remove_each(Local, item_paths', <<>>)
               IN /\ fs' = IF mounted THEN run.fs
                           ELSE [dirs |-> run.fs.dirs \cup OnShare(fs).dirs,
                                 files |-> run.fs.files \cup OnShare(fs).files]
                  /\ removed' = run.removed
                  /\ IF run.error = "none"
                     THEN /\ pc' = "notifier"
                          /\ UNCHANGED <<raised, exit_status>>
                     ELSE Raise(run.error)
          ELSE /\ pc' = "notifier"
               /\ UNCHANGED <<fs, removed, raised, exit_status>>
  /\ UNCHANGED <<originVars, destination_folder, scpVars, notifier_ran,
                 mountVars, choiceVars>>

\* The notifier is started once cleanup is over.
notifier ==
  /\ UNCHANGED auxVars
  /\ pc = "notifier"
  /\ notifier_ran' = TRUE
  /\ pc' = "done"
  /\ UNCHANGED <<fs, originVars, destination_folder, scpVars, item_paths,
                 remove_confirmation, removed, raised, exit_status, mountVars,
                 choiceVars>>

Next ==
  \/ select_origin
  \/ menu_cancelled
  \/ select_destination
  \/ select_serie
  \/ select_season
  \/ mount_ask
  \/ conversion_flow
  \/ confirmation_flow
  \/ establish_ssh_and_scp
  \/ set_permissions
  \/ check_files
  \/ check_space
  \/ remove_local_files
  \/ notifier

Spec == Init /\ [][Next]_vars

\* ------------------------------------------------------ format_size
\* The variables of the transfer program, but for its position.
mainVars == <<fs, originVars, destination_folder, scpVars, cleanupVars,
              mountVars, choiceVars, raised, exit_status>>

\* 1024.0, the threshold and the divisor of format_size.
Kibi == 1024

\* sizes = ["B", "KB", "MB", "GB", "TB"]
sizes == <<"B", "KB", "MB", "GB", "TB">>

\* A byte count is its digits in base 1024, the least significant first, one
\* digit more than there are units.  Division by 1024.0 is exact on a float,
\* and an int below 2^53 converts to float exactly: the leading digit stays
\* at most MaxTopDigit.
MaxTopDigit == 2
SizeDigits == {0, 1, 128, 500, 1023}
ByteCounts ==
  {low \o <<top>> : low \in [1..Len(sizes) -> SizeDigits], top \in 0..MaxTopDigit}

\* A comparison that lets exactly 1024 through.
at_most_1024(d, shift) ==
  \/ \A i \in (shift + 2)..Len(d) : d[i] = 0
  \/ /\ shift + 2 <= Len(d)
     /\ d[shift + 2] = 1
     /\ \A i \in 1..Len(d) : i # shift + 2 => d[i] = 0

\* size_bytes < 1024.0, after shift divisions by 1024.0
below_1024(d, shift) == \A i \in (shift + 2)..Len(d) : d[i] = 0

RECURSIVE WholeFrom(_, _)
\* The number whose base-1024 digits are d[i], d[i + 1], ...
WholeFrom(d, i) == IF i > Len(d) THEN 0 ELSE d[i] + Kibi * WholeFrom(d, i + 1)

RECURSIVE TimesHundred(_, _, _, _)
\* The fraction 0.d[shift] ... d[1] (base 1024) times 100, digit by digit from
\* d[i] on: the carry into the whole part and the digits that stay behind.
TimesHundred(d, shift, i, acc) ==
  IF i > shift THEN acc
  ELSE LET t == d[i] * 100 + acc.carry
       IN TimesHundred(d, shift, i + 1,
                       [carry |-> t \div Kibi, rem |-> Append(acc.rem, t % Kibi)])

\* f"{size_bytes:.2f}" after shift divisions, in hundredths: the exact value
\* rounded to two decimals, a tie going to the even digit.
two_decimals(d, shift) ==
  LET m == TimesHundred(d, shift, 1, [carry |-> 0, rem |-> <<>>])
      base == WholeFrom(d, shift + 1) * 100 + m.carry
      top == IF shift = 0 THEN 0 ELSE m.rem[shift]
      rest == \E i \in 1..(shift - 1) : m.rem[i] # 0
      up == \/ top > Kibi \div 2
            \/ top = Kibi \div 2 /\ (rest \/ base % 2 = 1)
  IN base + (IF up THEN 1 ELSE 0)

RECURSIVE format_size_loop(_, _)
\* format_size from the k-th unit on: for size in sizes: if size_bytes <
\* 1024.0: return; size_bytes /= 1024.0; and the return after the loop.
format_size_loop(d, k) ==
  IF k > Len(sizes) THEN <<two_decimals(d, k - 1), sizes[Len(sizes)]>>
  ELSE IF below_1024(d, k - 1) THEN <<two_decimals(d, k - 1), sizes[k]>>
  ELSE format_size_loop(d, k + 1)

\* format_size(size_bytes)
format_size(d) == format_size_loop(d, 1)

InitFormat ==
  /\ fs = FsFlat
  /\ mounted = TRUE
  /\ pc = "format_size"
  /\ Constructed
  /\ size_bytes \in ByteCounts
  /\ formatted = <<>>
  /\ RenameIdle
  /\ FirstCall

\* One call of format_size.
call_format_size ==
  /\ pc = "format_size"
  /\ formatted' = format_size(size_bytes)
  /\ pc' = "formatted"
  /\ UNCHANGED <<mainVars, size_bytes, renameVars, earlier_call>>

NextFormat == call_format_size

SpecFormat == InitFormat /\ [][NextFormat]_vars

\* ------------------------------------------------------ rename_files
\* str.isdigit() on one character, as \d sees it.
IsDigit(c) == c \in {"0", "1", "2", "3", "4", "5", "6", "7", "8", "9"}

RECURSIVE rstrip(_, _)
\* str.rstrip(c): the text without its trailing c's.
rstrip(text, c) ==
  IF text # <<>> /\ Last(text) = c THEN rstrip(Front(text), c) ELSE text

RECURSIVE strip(_)
\* str.strip(): the text without blanks at either end.
strip(text) ==
  IF text # <<>> /\ text[1] = " " THEN strip(Tail(text))
  ELSE rstrip(text, " ")

RECURSIVE split(_, _)
\* str.split(sep): the pieces between the separators, empty pieces included.
split(text, sep) ==
  LET at == {i \in 1..Len(text) : text[i] = sep}
  IN IF at = {} THEN <<text>>
     ELSE LET i == CHOOSE k \in at : \A l \in at : k <= l
          IN <<SubSeq(text, 1, i - 1)>>
               \o split(SubSeq(text, i + 1, Len(text)), sep)

\* seq[-k]
FromEnd(seq, k) == seq[Len(seq) + 1 - k]

RECURSIVE DigitRun(_, _)
\* (\d+) at position i: the longest run of digits that starts there.
DigitRun(text, i) ==
  IF i <= Len(text) /\ IsDigit(text[i])
  THEN <<text[i]>> \o DigitRun(text, i + 1)
  ELSE <<>>

\* (?:S|season)(\d+) tried at position i, case ignored: group(1), or the empty
\* text when the pattern does not match there.
season_group_at(text, i) ==
  IF LowerChar(text[i]) = "s" /\ DigitRun(text, i + 1) # <<>>
  THEN DigitRun(text, i + 1)
  ELSE IF /\ i + 5 <= Len(text)
          /\ lower(SubSeq(text, i, i + 5)) = <<"s", "e", "a", "s", "o", "n">>
  THEN DigitRun(text, i + 6)
  ELSE <<>>

\* A search that takes the first run of digits, whatever precedes it.
season_match_any_digits(text) ==
  LET hits == {i \in 1..Len(text) : DigitRun(text, i) # <<>>}
  IN IF hits = {} THEN <<>>
     ELSE DigitRun(text, CHOOSE k \in hits : \A l \in hits : k <= l)

\* re.search(r"(?:S|season)(\d+)", season_number, re.IGNORECASE): group(1) of
\* the leftmost match, the empty text for no match.
season_match(text) ==
  LET hits == {i \in 1..Len(text) : season_group_at(text, i) # <<>>}
  IN IF hits = {} THEN <<>>
     ELSE season_group_at(text, CHOOSE k \in hits : \A l \in hits : k <= l)

\* re.search(r"E(\d+)", file, re.IGNORECASE): group(1) of the leftmost match,
\* the empty text for no match.
episode_match(file) ==
  LET hits == {i \in 1..Len(file) :
                 LowerChar(file[i]) = "e" /\ DigitRun(file, i + 1) # <<>>}
  IN IF hits = {} THEN <<>>
     ELSE DigitRun(file, (CHOOSE k \in hits : \A l \in hits : k <= l) + 1)

RECURSIVE zfill(_, _)
\* str.zfill(width) on a text of digits.
zfill(text, width) ==
  IF Len(text) >= width THEN text ELSE zfill(<<"0">> \o text, width)

\* f"{serie_name}_S{season_number}_E{episode_number}.{file_extension}"
new_file_name(serie_name, season_number, file) ==
  serie_name \o <<"_", "S">> \o season_number \o <<"_", "E">>
    \o episode_match(file) \o <<".">> \o FromEnd(split(file, "."), 1)

RECURSIVE rename_plan(_, _, _)
\* rename_files, the dry run over the lines of the listing: a pair for every
\* file with an episode number whose new name differs from its name.
rename_plan(files, serie_name, season_number) ==
  IF files = <<>> THEN <<>>
  ELSE LET file == strip(files[1])
           rest == rename_plan(Tail(files), serie_name, season_number)
       IN IF episode_match(file) # <<>>
             /\ file # new_file_name(serie_name, season_number, file)
          THEN <<<<file, new_file_name(serie_name, season_number, file)>>>>
                 \o rest
          ELSE rest

\* The file names a season folder of the server can hold, in the order of a
\* listing.
RemoteNames ==
  << <<"E", "0", "2">>,
     <<"E", "1", ".", "m", "k", "v">>,
     <<"S", "h", "_", "S", "0", "1", "_", "E", "1", ".", "m", "k", "v">>,
     <<"n", ".", "t", "x", "t">>,
     <<"x", "e", "1", ".", "m", "k", "v">> >>

\* ls -1 "{season_folder}": the names of the folder, one per line.
ls_1(names) ==
  PickAt(RemoteNames, {i \in 1..Len(RemoteNames) : RemoteNames[i] \in names}, 1)

\* mv "{season_folder}/{old_name}" "{season_folder}/{new_name}": the file takes
\* the new name, replacing a file that has it; a missing source changes
\* nothing.
mv(names, old_name, new_name) ==
  IF old_name \in names THEN (names \ {old_name}) \cup {new_name} ELSE names

RECURSIVE mv_each(_, _)
\* rename_files, the loop over renamed_files.
mv_each(names, pairs) ==
  IF pairs = <<>> THEN names
  ELSE mv_each(mv(names, pairs[1][1], pairs[1][2]), Tail(pairs))

\* The last path segments select_destination can leave in a series
\* destination.
SeasonSegments ==
  { <<"S", "1">>, <<"s", "e", "a", "s", "o", "n", "2">>, <<"S", "1", "2">>,
    <<"E", "x", "t", "r", "a", "s">>, <<"1", "0">> }

\* The destinations select_destination returns, as characters: the category
\* folder and the season folders of a series, each with its closing "/".
RenameDestinations ==
  { <<"b", "/", "m", "o", "v", "i", "e", "s", "/">> }
    \cup { <<"b", "/", "s", "e", "r", "i", "e", "s", "/", "S", "h", "/">>
             \o segment \o <<"/">> : segment \in SeasonSegments }

\* The texts typed at the two prompts of rename_files.
RenameTexts == {<<"y">>, <<"Y", "E", "S">>, <<"n">>, <<>>}

\* rename_confirmation.lower() in ["y", "yes"]
rename_confirmed(text) == lower(text) \in {<<"y">>, <<"y", "e", "s">>}

\* A remote command of rename_files.
RenameCommand(op, src, dst) == [op |-> op, src |-> src, dst |-> dst]

RECURSIVE mv_commands(_, _)
\* The mv commands of the loop over renamed_files, in order.
mv_commands(season_folder, pairs) ==
  IF pairs = <<>> THEN <<>>
  ELSE <<RenameCommand("mv", season_folder \o <<"/">> \o pairs[1][1],
                       season_folder \o <<"/">> \o pairs[1][2])>>
         \o mv_commands(season_folder, Tail(pairs))

InitRename ==
  /\ fs = FsFlat
  /\ mounted = TRUE
  /\ pc = "rename_files"
  /\ Constructed
  /\ FormatIdle
  /\ FirstCall
  /\ rename_destination \in RenameDestinations
  /\ season_files \in SUBSET Range(RemoteNames)
  /\ rename_answers = <<>>
  /\ rename_log = <<>>
  /\ listed = <<>>
  /\ renamed_files = <<>>
  /\ rename_warned = FALSE

\* rename_files(origin_files, destination_folder)
rename_files ==
  /\ pc = "rename_files"
  /\ pc' = "rename_returned"
  /\ UNCHANGED <<mainVars, formatVars, rename_destination, earlier_call>>
  /\ \E first \in RenameTexts :
       IF ~rename_confirmed(first)
       THEN /\ rename_answers' = <<first>>
            /\ UNCHANGED <<season_files, rename_log, listed, renamed_files,
                           rename_warned>>
       ELSE LET season_folder == rstrip(rename_destination, "/")
                season_number == FromEnd(split(season_folder, "/"), 1)
                serie_name == FromEnd(split(season_folder, "/"), 2)
            IN IF season_match(season_number) = <<>>
               THEN /\ rename_answers' = <<first>>
                    /\ rename_warned' = TRUE
                    /\ UNCHANGED <<season_files, rename_log, listed,
                                   renamed_files>>
               ELSE LET files == ls_1(season_files)
                        plan == rename_plan(files, serie_name,
                                            zfill(season_match(season_number), 2))
                    IN \E second \in RenameTexts :
                         /\ rename_answers' = <<first, second>>
                         /\ listed' = files
                         /\ renamed_files' = plan
                         /\ UNCHANGED rename_warned
                         /\ IF rename_confirmed(second)
                            THEN /\ rename_log' =
                                      <<RenameCommand("ls", season_folder, <<>>)>>
                                        \o mv_commands(season_folder, plan)
                                 /\ season_files' = mv_each(season_files, plan)
                            ELSE /\ rename_log' =
                                      <<RenameCommand("ls", season_folder, <<>>)>>
                                 /\ UNCHANGED season_files

NextRename == rename_files

SpecRename == InitRename /\ [][NextRename]_vars

\* ------------------------------------------------------ a second call
\* select_origin() called again in the same process once the first call has
\* returned: current_folder takes its default, the origin root, and
\* pre_selected_items takes its default, the one list object created when the
\* function was defined, with whatever earlier calls appended to it.
select_origin_again ==
  /\ pc = "select_destination"
  /\ FirstCall
  /\ earlier_call' = <<[visits |-> visits, result |-> origin_files]>>
  /\ pc' = "select_origin"
  /\ current_folder' = origin_folder
  /\ depth' = 0
  /\ shown' = <<>>
  /\ visits' = <<>>
  /\ UNCHANGED <<fs, pre_selected_items, origin_files, returned_by,
                 destination_folder, scpVars, cleanupVars, mountVars,
                 choiceVars, raised, exit_status, formatVars, renameVars>>

NextTwice ==
  \/ select_origin
  \/ select_origin_again

SpecTwice == Init /\ [][NextTwice]_vars

\* ------------------------------------------------------ properties
\* The traversal of select_origin has returned and nothing ran after it.
JustReturned == pc = "select_destination" /\ returned_by # "none"

\* The folder and the selection of the last menu select_origin showed.
LastFolder == Last(visits)[1]
LastSelection == Last(visits)[2]

\* C1: choosing a set of files together with DONE in the top-level menu at the
\* origin root returns one Selection Entry pairing the root with all chosen
\* files in menu order.
C1_OneEntryForChosenFiles ==
  (/\ JustReturned
   /\ returned_by = "DONE"
   /\ Len(visits) = 1
   /\ Len(LastSelection) >= 2
   /\ \A n \in Range(Front(LastSelection)) : origin_folder \o <<n>> \in Local.files)
    => origin_files = <<Entry(origin_folder, Front(LastSelection))>>

\* Every name a returned Selection Set lists is a file of its entry's folder.
OnlyFilesListed ==
  \A i \in DOMAIN origin_files :
    \A n \in Range(origin_files[i].files) :
      origin_files[i].folder \o <<n>> \in Local.files

\* C2: in every returned Selection Set each source-directory path is the key
\* of at most one Selection Entry (checked on the Selection Sets that list
\* files only).
C2_DirectoryKeysAtMostOneEntry ==
  (JustReturned /\ OnlyFilesListed) =>
    \A i, j \in DOMAIN origin_files :
      origin_files[i].folder = origin_files[j].folder => i = j

\* C3: every name listed in a Selection Entry of a returned Selection Set is
\* the leaf name of a file directly in the entry's directory.
C3_EntriesListOnlyFiles == JustReturned => OnlyFilesListed

\* The (directory, label) pairs toggled during the traversal: in every menu,
\* the chosen labels other than the last one (DONE or the folder entered).
ToggledPairs ==
  UNION {{<<visits[k][1] \o <<n>>, n>> : n \in Range(Front(visits[k][2]))} :
           k \in {v \in DOMAIN visits : visits[v][2] # <<>>}}

\* C4: for a traversal that does not end in the single-file fallback, the
\* flattened Selection Set is exactly the toggled pairs, none missing and none
\* twice (checked on the traversals in which only files were toggled).
C4_FlattenIsToggledPairs ==
  (/\ JustReturned
   /\ returned_by = "DONE"
   /\ \A t \in ToggledPairs : t[1] \in Local.files) =>
    LET flat == collect_file_names(origin_files)
    IN /\ Range(flat) = ToggledPairs
       /\ \A i, j \in DOMAIN flat : flat[i] = flat[j] => i = j

\* C5 as stated: DONE is shown only by the top-level invocation, never by a
\* nested recursive call.
C5_DoneOnlyAtTopLevel ==
  (visits # <<>> /\ "DONE" \in Range(shown)) => Len(visits) = 1

\* C5: the menu of an invocation of select_origin contains the DONE sentinel
\* exactly when the resolved current folder is the origin root, in the
\* top-level invocation and in nested ones that came back to the root.
C5_DoneExactlyAtOriginRoot ==
  visits # <<>> => (("DONE" \in Range(shown)) <=> (LastFolder = origin_folder))

C5_Witness ==
  /\ Len(visits) >= 2
  /\ LastFolder = origin_folder
  /\ "DONE" \in Range(shown)

S1_path == origin_folder \o <<"S1">>

C7_FallbackUnlessDoneOrSubdirectory ==
  (/\ visits # <<>>
   /\ LastSelection # <<>>
   /\ Last(LastSelection) # "DONE"
   /\ Last(LastSelection) \notin SubdirNames(Local, LastFolder))
    => /\ returned_by = "fallback"
       /\ origin_files = <<Entry(LastFolder, <<Last(LastSelection)>>)>>

\* C7: at any depth, when the last chosen label is neither DONE, nor "..", nor
\* a subdirectory of the current folder, select_origin returns the one-entry
\* Selection Set [{current_folder: [that label]}], without the entries
\* accumulated before and without the other labels chosen in the same menu.
C7_FallbackUnlessDoneUpOrSubdirectory ==
  (/\ visits # <<>>
   /\ LastSelection # <<>>
   /\ Last(LastSelection) \notin {"DONE", ".."}
   /\ Last(LastSelection) \notin SubdirNames(Local, LastFolder))
    => /\ returned_by = "fallback"
       /\ origin_files = <<Entry(LastFolder, <<Last(LastSelection)>>)>>

C7_Witness ==
  /\ JustReturned
  /\ returned_by = "fallback"
  /\ Len(visits) >= 2
  /\ Len(LastSelection) >= 2
  /\ \E i \in DOMAIN pre_selected_items : pre_selected_items[i].files # <<>>
  /\ origin_files = <<Entry(LastFolder, <<Last(LastSelection)>>)>>

\* C8: when the menu of select_origin returns an empty selection, bye runs and
\* the process exits with status 1; no Selection Set is returned and
\* select_destination is not reached.
C8_EmptySelectionExits ==
  (visits # <<>> /\ LastSelection = <<>>)
    => /\ pc = "exited"
       /\ raised = "SystemExit"
       /\ exit_status = 1
       /\ returned_by = "none"
       /\ origin_files = <<>>
       /\ destination_folder = <<>>

C8_Witness ==
  /\ visits # <<>>
  /\ LastSelection = <<>>
  /\ exit_status = 1
\* The texts that are y or yes in some letter case.
YesInAnyCase ==
  {<<a>> : a \in {"y", "Y"}}
    \cup {<<a, b, c>> : a \in {"y", "Y"}, b \in {"e", "E"}, c \in {"s", "S"}}

\* C9: the transfer proceeds if and only if the text typed at the copy
\* confirmation is y or yes in any letter case; on any other text no session
\* is opened, no file is transmitted, no remote command is issued and scp
\* returns None.
C9_TransferIffConfirmed ==
  copy_confirmation # Unasked =>
    /\ (copy_confirmation \in YesInAnyCase)
         <=> (pc = "establish_ssh_and_scp" \/ remote # <<>>)
    /\ copy_confirmation \notin YesInAnyCase
         => /\ remote = <<>>
            /\ pc = "scp_returned"
            /\ scp_result = "None"

C9_Witness ==
  /\ copy_confirmation = <<"N", "o">>
  /\ collect_file_names(files_to_copy) # <<>>
  /\ remote = <<>>
  /\ scp_result = "None"

\* The put operations of the remote log, in order.
Puts == SelectSeq(remote, LAMBDA r : r.op = "put")

\* C10: scp returns True only when the copy was confirmed and the loop that
\* transmits every selected file completed without a failure.
C10_TrueOnlyAfterConfirmedFullTransfer ==
  scp_result = "True" =>
    /\ copy_confirmation \in YesInAnyCase
    /\ remote[1] = RemoteOp("connect", <<>>, <<>>, TRUE)
    /\ LET source_files == collect_file_names(files_to_copy)
       IN /\ Len(Puts) = Len(source_files)
          /\ \A i \in DOMAIN Puts :
               Puts[i] = RemoteOp("put", source_files[i][1], destination_folder, TRUE)

C10_Witness ==
  /\ scp_result = "True"
  /\ pc = "scp_returned"
  /\ Len(Puts) >= 2

\* ---------------------------------------------------------------- C11
\* All remote operations logged so far succeeded and a session was opened.
TransmissionSucceeded ==
  /\ \E i \in 1..Len(remote) : remote[i].op = "connect"
  /\ \A i \in 1..Len(remote) : remote[i].ok

\* C11: local cleanup and the notifier run only after scp yielded its success
\* indicator: every step that deletes a local path, records a cleanup answer
\* or starts the notifier is taken from a state where scp returned True, the
\* copy was confirmed and no remote operation had failed.
C11_CleanupOnlyAfterSuccess ==
  [][(~(fs.files \subseteq fs'.files) \/ ~(fs.dirs \subseteq fs'.dirs)
        \/ removed' # removed \/ item_paths' # item_paths
        \/ remove_confirmation' # remove_confirmation
        \/ notifier_ran' # notifier_ran)
      => /\ scp_result = "True"
         /\ copy_confirmation \in YesInAnyCase
         /\ TransmissionSucceeded]_vars

\* Originals were deleted after a successful transfer and the notifier ran.
C11_Witness ==
  /\ removed # <<>>
  /\ notifier_ran
  /\ scp_result = "True"

\* ---------------------------------------------------------------- C12
\* The session could not be opened or a put failed, at position i of remote.
FailedTransmission(i) ==
  /\ remote[i].op \in {"connect", "put"}
  /\ ~remote[i].ok

\* C12: a failure to open the remote session or to transmit a file is fatal:
\* the process has exited with a non-zero status and the failed operation is
\* the last remote operation, so the file is not retried, no later file is
\* transmitted and no chmod, ls or df is issued; nothing is cleaned up.
C12_TransmissionFailureIsFatal ==
  \A i \in 1..Len(remote) :
    FailedTransmission(i)
      => /\ pc = "exited"
         /\ exit_status > 0
         /\ raised = "Exception"
         /\ i = Len(remote)
         /\ scp_result = "none"
         /\ remove_confirmation = Unasked

\* A put failed after an earlier file went through and before the last file
\* of the Selection Set was reached.
C12_Witness ==
  /\ Len(remote) >= 3
  /\ FailedTransmission(Len(remote))
  /\ remote[Len(remote) - 1].op = "put"
  /\ Len(remote) - 1 < Len(collect_file_names(files_to_copy))

\* ---------------------------------------------------------------- C13
\* The positions of remote that hold operation op.
At(op) == {i \in 1..Len(remote) : remote[i].op = op}

\* C13: in a confirmed transfer chmod -R 755 on the destination is issued at
\* most once, and once it is issued every selected file has been transmitted
\* before it; every per-file listing follows the chmod; the free-space query
\* comes after all of them and is the last remote operation; a transfer that
\* returned True issued exactly one chmod, one listing per file and one query.
C13_ChmodOnceAfterPutsSpaceLast ==
  LET n == Len(collect_file_names(files_to_copy))
  IN /\ Cardinality(At("chmod")) <= 1
     /\ \A c \in At("chmod") :
          /\ remote[c].dst = destination_folder
          /\ {i \in At("put") : i < c /\ remote[i].ok} = At("put")
          /\ Cardinality(At("put")) = n
          /\ \A l \in At("ls") : c < l
     /\ At("ls") # {} => At("chmod") # {}
     /\ \A q \in At("df") :
          /\ q = Len(remote)
          /\ remote[q].dst = destination_base_folder
          /\ At("chmod") # {}
          /\ Cardinality(At("ls")) = n
     /\ scp_result = "True"
          => /\ Cardinality(At("chmod")) = 1
             /\ Cardinality(At("df")) = 1

\* A confirmed transfer of at least two files ran to its end.
C13_Witness ==
  /\ scp_result = "True"
  /\ Cardinality(At("put")) >= 2
  /\ Cardinality(At("ls")) >= 2
  /\ remote[Len(remote)].op = "df"

\* ---------------------------------------------------------------- C14
RECURSIVE FilesBefore(_, _)
\* The number of file names listed by the entries of items before entry e.
FilesBefore(items, e) ==
  IF e <= 1 THEN 0
  ELSE FilesBefore(items, e - 1) + Len(items[e - 1].files)

\* establish_ssh_and_scp returned without raising.
TransmissionCompleted == pc = "set_permissions" \/ At("chmod") # {}

\* C14: at most one remote session is ever opened; in a confirmed transfer
\* that completes it is opened first and exactly once, and the transmitted
\* files are, in Selection Set order, one put of <entry-directory>/<file-name>
\* to the Destination Path for every file name of every Selection Entry handed
\* to establish_ssh_and_scp, and no other put.
C14_OneSessionOnePutPerListedFile ==
  /\ Cardinality(At("connect")) <= 1
  /\ TransmissionCompleted
       => /\ At("connect") = {1}
          /\ Len(Puts) = FilesBefore(files_to_copy, Len(files_to_copy) + 1)
          /\ \A e \in 1..Len(files_to_copy) :
               \A j \in 1..Len(files_to_copy[e].files) :
                 LET put == Puts[FilesBefore(files_to_copy, e) + j]
                 IN /\ put.src = files_to_copy[e].folder
                                   \o <<files_to_copy[e].files[j]>>
                    /\ put.dst = destination_folder
                    /\ put.ok

\* A transfer of two entries, the first of them listing a file, completed.
C14_Witness ==
  /\ TransmissionCompleted
  /\ Len(files_to_copy) >= 2
  /\ Len(files_to_copy[1].files) >= 1
  /\ files_to_copy[1].folder # files_to_copy[2].folder

\* ---------------------------------------------------------------- C15
\* remove_local_files has computed its paths and asked its question.
CleanupAsked == remove_confirmation # Unasked

\* The number of paths an entry contributes: one per file name at the origin
\* root, one anywhere else.
PathCount(entry) == IF entry.folder = origin_folder THEN Len(entry.files) ELSE 1

RECURSIVE PathsBefore(_, _)
\* The number of paths contributed by the entries of items before entry e.
PathsBefore(items, e) ==
  IF e <= 1 THEN 0
  ELSE PathsBefore(items, e - 1) + PathCount(items[e - 1])

\* C15: the paths remove_local_files resolves are, entry by entry in
\* Selection Set order: for an entry of the configured origin root one path
\* per file name, the name joined to the root; for an entry of any other
\* directory exactly one path, the directory itself, whatever names it lists.
C15_ItemPathsByEntryKind ==
  CleanupAsked
    => /\ Len(item_paths) = PathsBefore(origin_files, Len(origin_files) + 1)
       /\ \A e \in 1..Len(origin_files) :
            LET entry == origin_files[e]
                at == PathsBefore(origin_files, e)
            IN IF entry.folder = origin_folder
               THEN \A j \in 1..Len(entry.files) :
                      item_paths[at + j] = Resolve(origin_folder \o <<entry.files[j]>>)
               ELSE item_paths[at + 1] = Resolve(entry.folder)

\* Cleanup ran on a Selection Set holding an entry of the origin root that
\* lists a file and an entry of a folder below the root that lists a name.
C15_Witness ==
  /\ CleanupAsked
  /\ \E e \in 1..Len(origin_files) :
       origin_files[e].folder = origin_folder /\ Len(origin_files[e].files) >= 1
  /\ \E e \in 1..Len(origin_files) :
       /\ origin_files[e].folder # origin_folder
       /\ IsPrefix(origin_folder, origin_files[e].folder)
       /\ Len(origin_files[e].files) >= 1
       /\ origin_files[e].folder \in Range(item_paths)

\* ---------------------------------------------------------------- C16
\* C16: when the answer to the cleanup confirmation is anything other than y
\* or yes in any letter case, the step that takes the answer and every later
\* step leave the local filesystem unchanged, and nothing is recorded as
\* removed.
C16_DeclinedCleanupKeepsFiles ==
  [][(remove_confirmation' # Unasked /\ remove_confirmation' \notin YesInAnyCase)
      => fs' = fs /\ removed' = <<>>]_vars

\* Cleanup was declined, by an empty answer, with paths to remove on display.
C16_Witness ==
  /\ remove_confirmation = <<>>
  /\ item_paths # <<>>
  /\ pc = "done"

\* ---------------------------------------------------------------- C17
\* select_destination has returned a Destination Path.
DestinationReturned == destination_folder # <<>>

\* C17: select_destination returns <base>/<category>/ for every chosen
\* category other than series and <base>/series/<series-name>/<season>/ for
\* series, with the names chosen in the two follow-up menus (entries of the
\* menus as they stand when it returns); every returned destination ends with
\* a separator.  Scenario 3: movies gives
\* <base>/movies/, series with Show and S01 gives <base>/series/Show/S01/.
C17_DestinationShape ==
  DestinationReturned
    => /\ Last(destination_folder) = "/"
       /\ SubSeq(destination_folder, 1, Len(destination_base_folder))
            = destination_base_folder
       /\ media_type # "series"
            => /\ destination_folder = <<"base", "/", media_type, "/">>
               /\ serie = "" /\ season = ""
       /\ media_type = "series"
            => /\ destination_folder
                    = <<"base", "/", "series", "/", serie, "/", season, "/">>
               /\ pc = "conversion_flow"
                    => /\ serie \in Range(menu_entries(
                            get_list_of_items(Local, series_folder), FALSE))
                       /\ season \in Range(menu_entries(
                            get_list_of_items(Local, series_folder \o <<serie>>),
                            FALSE))
       /\ media_type = "movies" => destination_folder = <<"base", "/", "movies", "/">>
       /\ (media_type = "series" /\ serie = "Show" /\ season = "S01")
            => destination_folder
                 = <<"base", "/", "series", "/", "Show", "/", "S01", "/">>

\* The series Show and its season S01 were chosen.
C17_Witness ==
  /\ media_type = "series"
  /\ serie = "Show"
  /\ season = "S01"
  /\ DestinationReturned

\* ---------------------------------------------------------------- C18
\* The media-category segment of a returned Destination Path: the segment
\* that follows <base>/.
CategorySegment == destination_folder[Len(destination_base_folder) + 2]

\* C18: the media-category segment of every Destination Path returned by
\* select_destination is one of movies, series, comedy, documentaries,
\* whatever entry is picked in the category menu.
C18_CategoryFromFixedSet ==
  DestinationReturned
    => CategorySegment \in {"movies", "series", "comedy", "documentaries"}

\* ---------------------------------------------------------------- C19
\* Sequence l lists the names of set S once each, in ascending code-point
\* order.
ListsSorted(l, S) ==
  /\ Len(l) = Cardinality(S)
  /\ Range(l) = S
  /\ \A i, j \in 1..Len(l) : i < j => Rank[l[i]] < Rank[l[j]]

\* The positions of the program at which a folder can be listed, and the one
\* right after conversion_flow has written its files.
ListingStates ==
  {"select_origin", "select_destination", "select_serie", "select_season",
   "confirmation_flow"}

\* C19: for every existing directory D, get_list_of_items(D) is the sorted
\* names of D's subdirectories followed by the sorted names of D's other
\* entries: every entry appears once and every subdirectory precedes every
\* file, whatever their names.  D ranges over the directories of every
\* filesystem a listing can be taken of, and of those conversion_flow leaves.
C19_ListingDirsThenFilesSorted ==
  LET f == Local
  IN \A D \in (IF pc \in ListingStates THEN f.dirs ELSE {}) :
       LET listing == get_list_of_items(f, D)
           dirs == SubdirNames(f, D)
           files == FileNames(f, D)
           nd == Cardinality(dirs)
       IN /\ Len(listing) = nd + Cardinality(files)
          /\ ListsSorted(SubSeq(listing, 1, nd), dirs)
          /\ ListsSorted(SubSeq(listing, nd + 1, Len(listing)), files)

\* select_origin listed the filesystem root, where the file a.mkv sorts
\* before the directories m and o.
C19_Witness ==
  /\ \E i \in 1..Len(visits) : visits[i][1] = <<>>
  /\ \E d \in SubdirNames(Local, <<>>) :
       \E n \in FileNames(Local, <<>>) : Rank[n] < Rank[d]

\* ---------------------------------------------------------------- C20
\* get_list_of_items is about to be called on a path that does not exist.
MissingListing ==
  /\ pc \in {"select_serie", "select_season"}
  /\ ~path_exists(Local, listed_folder)

\* The answers mount_ask takes as a yes: nothing, y or yes in any letter case.
MountYes == YesInAnyCase \cup {<<>>}

\* C20: a call of get_list_of_items on a path that does not exist returns no
\* listing; it asks whether to mount the share and, on a yes, is at the same
\* listing again, so that it repeats until the listing succeeds; on any other
\* answer the process exits with status 1.  A menu entry is only ever taken
\* from the listing of a path that exists.
C20_MissingPathAsksToMount ==
  [][/\ MissingListing
          => /\ mount_answer' \in MountTexts
             /\ <<media_type', serie', season', destination_folder'>>
                  = <<media_type, serie, season, destination_folder>>
             /\ IF mount_answer' \in MountYes
                THEN pc' = pc /\ exit_status' = exit_status /\ raised' = raised
                ELSE /\ pc' = "exited"
                     /\ exit_status' = 1
                     /\ mounted' = mounted
     /\ (serie' # serie \/ season' # season)
          => path_exists(Local, listed_folder)]_vars

\* The share was not mounted, the empty answer mounted it and both series
\* listings then succeeded.
C20_Witness ==
  /\ mount_answer = <<>>
  /\ mounted
  /\ serie = "Show"
  /\ season = "S01"

\* ---------------------------------------------------------------- C21
\* The positions of the program at which a menu is shown.
MenuStates ==
  {"select_origin", "select_destination", "select_serie", "select_season"}

\* C21: a menu step of select_origin that ends the run without handing a
\* selection to its caller raises KeyboardInterrupt, the cancellation signal,
\* and changes nothing else; a menu confirmed with nothing selected hands the
\* empty selection to select_origin, which records it and says bye
\* (SystemExit), never the cancellation signal: the two outcomes differ.  No
\* menu step ever ends in TypeError.
C21_CancellationDistinctFromEmpty ==
  [][/\ (pc = "select_origin" /\ pc' = "exited" /\ visits' = visits)
          => /\ raised' = "KeyboardInterrupt"
             /\ UNCHANGED <<fs, originVars, destination_folder>>
     /\ (pc = "select_origin" /\ visits' # visits
           /\ Last(visits')[2] = <<>>)
          => /\ raised' = "SystemExit"
             /\ raised' # "KeyboardInterrupt"
     /\ (pc \in MenuStates /\ pc' = "exited")
          => raised' \in {"KeyboardInterrupt", "SystemExit", "IndexError",
                          "NotADirectoryError"}]_vars

\* The second menu of a traversal was cancelled.
C21_Witness ==
  /\ raised = "KeyboardInterrupt"
  /\ Len(visits) = 1
  /\ pc = "exited"

\* ---------------------------------------------------------------- C22
\* The remote listing commands issued so far, in order.
Listings == SelectSeq(remote, LAMBDA r : r.op = "ls")

\* check_files has run.
FilesChecked == pc = "check_space" \/ At("df") # {}

\* C22: check_files issues exactly one listing ls -alh "<destination><name>"
\* for every file name of every Selection Entry, in Selection Set order: once
\* it has run, the listings are as many as the file names of the Selection
\* Set and the k-th listing names the k-th file name; before it runs there is
\* no listing.
C22_OneListingPerFileName ==
  IF FilesChecked
  THEN /\ Len(Listings) = FilesBefore(files_to_copy, Len(files_to_copy) + 1)
       /\ \A e \in 1..Len(files_to_copy) :
            \A j \in 1..Len(files_to_copy[e].files) :
              Listings[FilesBefore(files_to_copy, e) + j].dst
                = destination_folder \o <<files_to_copy[e].files[j]>>
  ELSE Listings = <<>>

\* check_files ran on a Selection Set of two entries that list three names.
C22_Witness ==
  /\ FilesChecked
  /\ Len(files_to_copy) >= 2
  /\ Len(Listings) >= 3

\* ---------------------------------------------------------------- C23
\* The index of the leading non-zero digit of d, 1 when there is none.
Leading(d) ==
  IF \A i \in 1..Len(d) : d[i] = 0 THEN 1
  ELSE CHOOSE i \in 1..Len(d) : d[i] # 0 /\ \A j \in (i + 1)..Len(d) : d[j] = 0

\* The byte count with digit v at position i and zeros elsewhere.
OneDigit(v, i) == [j \in 1..(Len(sizes) + 1) |-> IF j = i THEN v ELSE 0]

\* C23: for a byte count n with 0 <= n < 1024^5, format_size reports
\* n / 1024^k to two decimals in the k-th unit of (B, KB, MB, GB, TB), k the
\* smallest index with n / 1024^k < 1024: the unit is that of the leading
\* base-1024 digit and the whole part of the value is that digit.  500 gives
\* 500.00 B, 1024 1.00 KB, 1048576 1.00 MB, 1073741824 1.00 GB and
\* 1099511627776 1.00 TB.
C23_UnitOfLeadingDigit ==
  (formatted # <<>> /\ size_bytes[Len(sizes) + 1] = 0)
    => LET k == Leading(size_bytes) - 1
       IN /\ formatted[2] = sizes[k + 1]
          /\ formatted[1] = two_decimals(size_bytes, k)
          /\ formatted[1] >= size_bytes[k + 1] * 100
          /\ formatted[1] <= size_bytes[k + 1] * 100 + 100
          /\ size_bytes = OneDigit(500, 1) => formatted = <<50000, "B">>
          /\ size_bytes = OneDigit(1, 2) => formatted = <<100, "KB">>
          /\ size_bytes = OneDigit(1, 3) => formatted = <<100, "MB">>
          /\ size_bytes = OneDigit(1, 4) => formatted = <<100, "GB">>
          /\ size_bytes = OneDigit(1, 5) => formatted = <<100, "TB">>

\* 1524 bytes were formatted as 1.49 KB.
C23_Witness ==
  /\ size_bytes = <<500, 1, 0, 0, 0, 0>>
  /\ formatted = <<149, "KB">>

\* ---------------------------------------------------------------- C30
\* C30: for a byte count n >= 1024^5 format_size reports n / 1024^4 in TB,
\* the conversion it applies to the counts below 1024^5 that fall in TB.
C30_HugeCountsInTB ==
  (formatted # <<>> /\ size_bytes[Len(sizes) + 1] >= 1)
    => formatted = <<two_decimals(size_bytes, Len(sizes) - 1), "TB">>

\* ---------------------------------------------------------------- C26
\* C26: during select_origin the current folder of every menu shown is the
\* origin root or a descendant of it, and so is the folder of every entry
\* recorded: no choice takes the traversal outside the origin root's subtree.
C26_TraversalStaysBelowOrigin ==
  /\ \A i \in 1..Len(visits) : IsPrefix(origin_folder, visits[i][1])
  /\ \A i \in 1..Len(pre_selected_items) :
       IsPrefix(origin_folder, pre_selected_items[i].folder)
  /\ \A i \in 1..Len(origin_files) :
       IsPrefix(origin_folder, origin_files[i].folder)

\* ---------------------------------------------------------------- C25
\* A local file that items names, or that lies below a path items names.
NamedIn(items, q) ==
  \E i \in 1..Len(items) :
    \E j \in 1..Len(items[i].files) :
      IsPrefix(Resolve(items[i].folder \o <<items[i].files[j]>>), q)

\* C25: a confirmed remove_local_files deletes no local file that was not
\* selected for transfer: every file that disappears in the cleanup step is
\* named by the Selection Set or is the converted file sent in its place.
C25_OnlySelectedFilesDeleted ==
  [][pc = "scp_returned"
       => \A q \in fs.files \ fs'.files :
            NamedIn(origin_files, q) \/ NamedIn(files_to_copy, q)]_vars

\* ---------------------------------------------------------------- C27
\* C27: a confirmed remove_local_files reaches every resolved path while it
\* still exists, so the deletion loop runs to completion (no deletion raises)
\* and every resolved path is gone afterwards.
C27_CleanupRunsToCompletion ==
  (CleanupAsked /\ remove_confirmed(remove_confirmation))
    => /\ raised \notin {"FileNotFoundError", "OSError"}
       /\ removed = item_paths
       /\ \A i \in 1..Len(item_paths) :
            item_paths[i] \notin Local.files \cup Local.dirs

\* ---------------------------------------------------------------- C24
\* The last segment of the destination rename_files was called with.
LastSegment == FromEnd(split(rstrip(rename_destination, "/"), "/"), 1)

\* Some s, or the word season, of the text is directly followed by a digit.
SeasonInferable(text) ==
  \E i \in 1..(Len(text) - 1) :
    /\ IsDigit(text[i + 1])
    /\ \/ text[i] \in {"s", "S"}
       \/ /\ i >= 6
          /\ lower(SubSeq(text, i - 5, i)) = <<"s", "e", "a", "s", "o", "n">>

\* C24: when the user agrees to rename and no season number can be inferred
\* from the last segment of the destination, rename_files warns and returns
\* normally: it issues no remote listing and no mv, asks nothing more, and
\* nothing is raised.
C24_UninferableSeasonSkips ==
  (/\ pc = "rename_returned"
   /\ rename_confirmed(rename_answers[1])
   /\ ~SeasonInferable(LastSegment))
    => /\ rename_warned
       /\ rename_log = <<>>
       /\ Len(rename_answers) = 1
       /\ renamed_files = <<>>
       /\ raised = "none"

C24_Witness ==
  /\ pc = "rename_returned"
  /\ rename_answers = << <<"Y", "E", "S">> >>
  /\ LastSegment = <<"1", "0">>
  /\ season_files # {}
  /\ rename_warned
  /\ rename_log = <<>>

\* ---------------------------------------------------------------- C29
\* C29: in a confirmed rename_files run no two files of the season folder are
\* given the same new name and no file is renamed onto a name that the folder
\* already holds: the planned renames never overwrite a file.
C29_RenamesNeverOverwrite ==
  (Len(rename_answers) = 2 /\ rename_confirmed(rename_answers[2]))
    => /\ \A i, j \in 1..Len(renamed_files) :
            i # j => renamed_files[i][2] # renamed_files[j][2]
       /\ \A i \in 1..Len(renamed_files) :
            renamed_files[i][2] \notin Range(listed)

\* ---------------------------------------------------------------- C28
\* C28: two successive top-level select_origin calls in one process, given
\* the same filesystem and the same sequence of choices, return equal
\* Selection Sets.
C28_SecondCallEqualsFirst ==
  (/\ ~FirstCall
   /\ pc = "select_destination"
   /\ visits = earlier_call[1].visits)
    => origin_files = earlier_call[1].result

====
